---- MODULE Spec2Model ----
\* Fork-management scripts of the cipher fork, as state machines over an
\* abstract git repository:
\*   scripts/check-rebase-readiness.sh    actions RR_...
\*   scripts/rebase-from-upstream.sh      actions RB_...
\*   scripts/resolve-rebase-conflicts.sh  actions RS_...
\*   scripts/sync-upstream.sh             actions SY_...
\*   scripts/fork-health.sh               actions HC_...
\* One behaviour is one run of one script (variable script), started in a
\* repository and environment chosen by Init.  External commands (git, bun,
\* read) are modelled by their effect on the repository and by their exit
\* status, which the environment chooses where it can go either way.
EXTENDS Integers, Sequences, FiniteSets, TLC

\* ---------------------------------------------------------------- bounds
\* largest number of paths one stopped rebase leaves in conflict
MaxConflicts == 2
\* largest number of commits counted in HEAD..upstream/main
MaxCommits == 2

\* ------------------------------------------------------------ environment
\* date +%Y%m%d and date +%H%M%S at the time of the run
Today == "20250926"
Now == "120000"
NoTime == ""

\* a branch name: kind/…-date[-time]
Br(kind, d, t) == [kind |-> kind, date |-> d, time |-> t]
Main == Br("main", "", NoTime)
Feat == Br("feat", "", NoTime)
Hotfix == Br("hotfix", "", NoTime)
\* HEAD detached (git branch --show-current prints nothing)
Detached == Br("", "", NoTime)

\* commits
C_fork == "c_fork"
C_old == "c_old"
C_up_old == "c_up_old"
C_up == "c_up"
C_rebased == "c_rebased"
C_onto == "c_onto"

NotExited == -1

\* ------------------------------------------------------------------ files
KEEP_OURS ==
  << "package.json", "bun.lock", "biome.json", "lefthook.yml",
     "justfile", "bunfig.toml", ".gitignore" >>

TAKE_THEIRS == << >>

\* "Files Always Kept (Ours)" of the README; src/__mocks__/* by one member
README_KEPT ==
  { "package.json", "bun.lock", "biome.json", "lefthook.yml", "justfile",
    "vitest.config.ts", "src/__mocks__/bun-sqlite.ts" }

SeqRange(s) == { s[k] : k \in 1..Len(s) }

Files ==
  SeqRange(KEEP_OURS) \cup README_KEPT
    \cup { "src/app/ui/package.json", "src/core/index.ts" }

\* git status --porcelain codes of an unmerged path
Unmerged == { "UU", "DU", "UD", "AA" }
Clean == "none"

\* contents of a path: stage 2 ("ours") of a rebase is the branch rebased
\* onto, stage 3 ("theirs") is the fork commit being replayed
Upstream == "upstream"
Fork == "fork"
NoContent == "none"

VARIABLES
  script, pc, exitCode, out, ops,
  head, curBranch, branches, worktreeClean, upstreamRemote, upstreamMain,
  rebaseInProgress, conflict, staged,
  branches0, curBranch0, conflict0,
  checks, rrExit,
  REPLY, backup_branch, integration_branch,
  resolved_count, idx, remaining, rsExit,
  upstream_commits, preview, confirm,
  health, passed

ctl == << script, pc, exitCode, out, ops >>
git == << head, curBranch, branches, worktreeClean, upstreamRemote,
          upstreamMain, rebaseInProgress, conflict, staged >>
hist == << branches0, curBranch0, conflict0 >>
rr == << checks, rrExit >>
rb == << REPLY, backup_branch, integration_branch >>
rs == << resolved_count, idx, remaining, rsExit >>
sy == << upstream_commits, preview, confirm >>
hc == << health, passed >>

\* ------------------------------------------- application components
\* Each component below has a specification of its own (SpecContextManager,
\* ...), in which the scripts stay idle; in Spec the components stay idle.

\* createContextManager(config, promptManager, historyProvider?, sessionId?)
VARIABLES config, historyProvider, sessionId, cmOutcome, managers

cm == << config, historyProvider, sessionId, cmOutcome, managers >>

NoConfig == [ valid |-> FALSE, provider |-> "", model |-> "" ]
Idle == [ kind |-> "idle" ]
Pending == [ kind |-> "pending" ]

CMIdle ==
  /\ config = NoConfig
  /\ historyProvider = FALSE
  /\ sessionId = ""
  /\ cmOutcome = Idle
  /\ managers = {}

\* docker/scripts/build.sh: its configuration and the build directory
VARIABLES BUILD_UI, NODE_ENV, ENABLE_CACHE, fsys, build_cmd

bld == << BUILD_UI, NODE_ENV, ENABLE_CACHE, fsys, build_cmd >>

\* what dist/ holds: nothing (no directory), an empty directory, dist/cipher,
\* dist/index.js
DistStates == { "none", "empty", "cipher", "index.js" }

NoFiles ==
  [ package_json |-> FALSE, bun |-> FALSE, node_modules |-> FALSE,
    dist |-> "none", memAgent |-> FALSE, low_disk |-> FALSE ]

BuildIdle ==
  /\ BUILD_UI = "false"
  /\ NODE_ENV = "production"
  /\ ENABLE_CACHE = "true"
  /\ fsys = NoFiles
  /\ build_cmd = ""

\* docker-bake.hcl: its variables, the targets asked for and built, and what
\* the builds have written to the registry
VARIABLES PUSH_TO_REGISTRY, OUTPUT_TYPE, requested, built, registry

bake == << PUSH_TO_REGISTRY, OUTPUT_TYPE, requested, built, registry >>

BakeIdle ==
  /\ PUSH_TO_REGISTRY = "false"
  /\ OUTPUT_TYPE = "docker"
  /\ requested = {}
  /\ built = {}
  /\ registry = {}

\* DatabaseHistoryProvider over one storage backend: store is what the
\* backend holds under messages:<sessionId>; saved, faulted and overwritten
\* remember, per session, the messages handed to saveMessage since the last
\* clearHistory, whether a backend operation failed, and whether the key was
\* written behind the provider's back; lastCall and history are the last
\* call of the provider and what the last getHistory resolved to
VARIABLES store, saved, faulted, overwritten, lastCall, history, calls

hp == << store, saved, faulted, overwritten, lastCall, history, calls >>

Sessions == { "s1", "s2" }

NoCall == [ op |-> "none", session |-> "", failed |-> FALSE,
            outcome |-> "none" ]

HistoryIdle ==
  /\ store = [ s \in Sessions |-> << >> ]
  /\ saved = [ s \in Sessions |-> << >> ]
  /\ faulted = [ s \in Sessions |-> FALSE ]
  /\ overwritten = [ s \in Sessions |-> FALSE ]
  /\ lastCall = NoCall
  /\ history = << >>
  /\ calls = 0

\* compression factory: the configuration handed to both functions, what
\* each made of it, and the strategy classes the async one has loaded
VARIABLES compression, asyncStrategy, syncStrategy, loaded

cf == << compression, asyncStrategy, syncStrategy, loaded >>

NoCompression ==
  [ strategy |-> "", maxTokens |-> 0, warningThreshold |-> 0 ]

CompressionIdle ==
  /\ compression = NoCompression
  /\ asyncStrategy = Idle
  /\ syncStrategy = Idle
  /\ loaded = {}

\* DeepseekService.getAIResponseWithRetries(tools, userInput): the tools
\* passed, what each attempt will meet, and how the call ended
VARIABLES tools, plan, retried

rt == << tools, plan, retried >>

RetryIdle ==
  /\ tools = << >>
  /\ plan = << >>
  /\ retried = Idle

\* DeepseekService.generate(userInput): the service's maxIterations, the
\* point generate has reached, its iterationCount and formattedTools, the
\* messages of the context manager, the chat-completion calls made and
\* failed, the tool calls executed, and how generate ended; whether the
\* service's eventManager field holds an event manager, the sessionId
\* generate reads from the context manager ("" when it has none), and the
\* session events emitted
VARIABLES maxIterations, dsPc, iterationCount, formattedTools, context,
          apiCalls, apiFailures, executed, generated,
          eventManager, ctxSessionId, events

ds == << maxIterations, dsPc, iterationCount, formattedTools, context,
         apiCalls, apiFailures, executed, generated,
         eventManager, ctxSessionId, events >>

GenerateIdle ==
  /\ maxIterations = 0
  /\ dsPc = "idle"
  /\ iterationCount = 0
  /\ formattedTools = << >>
  /\ context = << >>
  /\ apiCalls = 0
  /\ apiFailures = 0
  /\ executed = << >>
  /\ generated = Idle
  /\ eventManager = FALSE
  /\ ctxSessionId = ""
  /\ events = << >>

\* docker-buildx-use.sh: the environment it is started in, its variables
\* DOCKER_BUILDER and DOCKER_CLOUD_ENDPOINT, the builders docker buildx knows
\* (name to driver) and the one selected, those two as they were when the
\* current run started, and the runs that have ended
VARIABLES env, DOCKER_BUILDER, DOCKER_CLOUD_ENDPOINT, builders, selected,
          bxStart, bxRuns

bx == << env, DOCKER_BUILDER, DOCKER_CLOUD_ENDPOINT, builders, selected,
         bxStart, bxRuns >>

\* the docker driver's builder, which always exists
DefaultBuilder == [ n \in { "default" } |-> "docker" ]

BuildxIdle ==
  /\ env = [ DOCKER_BUILDER |-> "", DOCKER_CLOUD_ENDPOINT |-> "" ]
  /\ DOCKER_BUILDER = ""
  /\ DOCKER_CLOUD_ENDPOINT = ""
  /\ builders = DefaultBuilder
  /\ selected = "default"
  /\ bxStart = [ builders |-> builders, selected |-> selected ]
  /\ bxRuns = << >>

app == << cm, bld, bake, hp, cf, rt, ds, bx >>

AppIdle ==
  /\ CMIdle /\ BuildIdle /\ BakeIdle /\ HistoryIdle /\ CompressionIdle
  /\ RetryIdle /\ GenerateIdle /\ BuildxIdle

\* the components other than the one named
notCM == << bld, bake, hp, cf, rt, ds, bx >>
IdleButCM ==
  /\ BuildIdle /\ BakeIdle /\ HistoryIdle /\ CompressionIdle
  /\ RetryIdle /\ GenerateIdle /\ BuildxIdle
notBuild == << cm, bake, hp, cf, rt, ds, bx >>
IdleButBuild ==
  /\ CMIdle /\ BakeIdle /\ HistoryIdle /\ CompressionIdle
  /\ RetryIdle /\ GenerateIdle /\ BuildxIdle
notBake == << cm, bld, hp, cf, rt, ds, bx >>
IdleButBake ==
  /\ CMIdle /\ BuildIdle /\ HistoryIdle /\ CompressionIdle
  /\ RetryIdle /\ GenerateIdle /\ BuildxIdle
notHistory == << cm, bld, bake, cf, rt, ds, bx >>
IdleButHistory ==
  /\ CMIdle /\ BuildIdle /\ BakeIdle /\ CompressionIdle
  /\ RetryIdle /\ GenerateIdle /\ BuildxIdle
notCompression == << cm, bld, bake, hp, rt, ds, bx >>
IdleButCompression ==
  /\ CMIdle /\ BuildIdle /\ BakeIdle /\ HistoryIdle
  /\ RetryIdle /\ GenerateIdle /\ BuildxIdle
notRetry == << cm, bld, bake, hp, cf, ds, bx >>
IdleButRetry ==
  /\ CMIdle /\ BuildIdle /\ BakeIdle /\ HistoryIdle /\ CompressionIdle
  /\ GenerateIdle /\ BuildxIdle
notGenerate == << cm, bld, bake, hp, cf, rt, bx >>
IdleButGenerate ==
  /\ CMIdle /\ BuildIdle /\ BakeIdle /\ HistoryIdle /\ CompressionIdle
  /\ RetryIdle /\ BuildxIdle

notBuildx == << cm, bld, bake, hp, cf, rt, ds >>
IdleButBuildx ==
  /\ CMIdle /\ BuildIdle /\ BakeIdle /\ HistoryIdle /\ CompressionIdle
  /\ RetryIdle /\ GenerateIdle

vars == << ctl, git, hist, rr, rb, rs, sy, hc, app >>

Scripts == { "readiness", "rebase", "resolve", "sync", "health" }

Entry(s) ==
  CASE s = "readiness" -> "rr_clean"
    [] s = "rebase" -> "rb_readiness"
    [] s = "resolve" -> "rs_check"
    [] s = "sync" -> "sy_fetch"
    [] s = "health" -> "hc_build"

\* branches that may exist before the run
BackupDateOnly == Br("backup", Today, NoTime)
BackupStamped == Br("backup", Today, Now)
IntegrationToday == Br("integrate", Today, NoTime)
Leftover == { BackupDateOnly, BackupStamped, IntegrationToday }

CheckNames == { "clean", "branch", "remote", "fetch", "backup", "tests" }

Init ==
  /\ script \in Scripts
  /\ pc = Entry(script)
  /\ exitCode = NotExited
  /\ out = << >>
  /\ ops = << >>
  /\ head = C_fork
  /\ curBranch \in { Main, Feat, Hotfix }
  /\ \E old \in SUBSET (IF script \in { "readiness", "rebase" }
                          THEN Leftover ELSE {}) :
       branches = [ b \in { curBranch } \cup old |->
                      IF b = curBranch THEN C_fork ELSE C_old ]
  /\ worktreeClean \in BOOLEAN
  /\ upstreamRemote \in BOOLEAN
  /\ upstreamMain = IF upstreamRemote THEN C_up_old ELSE "none"
  /\ rebaseInProgress = FALSE
  /\ conflict = [ f \in Files |-> Clean ]
  /\ staged = [ f \in Files |-> NoContent ]
  /\ branches0 = branches
  /\ curBranch0 = curBranch
  /\ conflict0 = conflict
  /\ checks = [ c \in CheckNames |-> "unrun" ]
  /\ rrExit = NotExited
  /\ REPLY = "unread"
  /\ backup_branch = Detached
  /\ integration_branch = Detached
  /\ resolved_count = 0
  /\ idx = 1
  /\ remaining = 0
  /\ rsExit = NotExited
  /\ upstream_commits = 0
  /\ preview = "unrun"
  /\ confirm = "unread"
  /\ health = [ build_status |-> "", test_status |-> "", ts_status |-> "",
                bun_version |-> "", lefthook_version |-> "",
                biome_version |-> "", health_score |-> 0,
                health_percentage |-> 0 ]
  /\ passed = {}
  /\ AppIdle

Say(m) == out' = Append(out, m)
Say2(m, n) == out' = out \o << m, n >>
Do(o) == ops' = Append(ops, o)

\* the script itself ends with status code
Exit(code) == pc' = "done" /\ exitCode' = code

\* ------------------------------------------- check-rebase-readiness.sh
\* exit of check-rebase-readiness.sh: back to the caller's `if !` when it
\* was started by rebase-from-upstream.sh
RRReturn(code) ==
  /\ rrExit' = code
  /\ IF script = "rebase"
       THEN pc' = "rb_check" /\ UNCHANGED exitCode
       ELSE Exit(code)

Mark(c, v) == checks' = [ checks EXCEPT ![c] = v ]

\* [[ -n $(git status --porcelain) ]] -> exit 1
RR_Clean ==
  /\ pc = "rr_clean"
  /\ IF ~worktreeClean
       THEN /\ Mark("clean", "fail")
            /\ Say("Working tree is not clean")
            /\ RRReturn(1)
       ELSE /\ Mark("clean", "pass")
            /\ pc' = "rr_branch"
            /\ UNCHANGED << out, exitCode, rrExit >>
  /\ UNCHANGED << script, app, ops, git, hist, rb, rs, sy, hc >>

\* current_branch != main and not ^(feat|integrate)/
BranchExpected(b) == b.kind \in { "main", "feat", "integrate" }

RR_Branch ==
  /\ pc = "rr_branch"
  /\ IF ~BranchExpected(curBranch)
       THEN Mark("branch", "warn") /\ Say("Not on main or feature branch")
       ELSE Mark("branch", "pass") /\ UNCHANGED out
  /\ pc' = "rr_remote"
  /\ UNCHANGED << script, app, exitCode, ops, git, hist, rrExit, rb, rs, sy, hc >>

\* git remote get-url upstream
RR_Remote ==
  /\ pc = "rr_remote"
  /\ IF ~upstreamRemote
       THEN /\ Mark("remote", "fail")
            /\ Say("Upstream remote not configured")
            /\ RRReturn(1)
       ELSE /\ Mark("remote", "pass")
            /\ pc' = "rr_fetch"
            /\ UNCHANGED << out, exitCode, rrExit >>
  /\ UNCHANGED << script, app, ops, git, hist, rb, rs, sy, hc >>

\* git fetch upstream: the remote-tracking ref moves when it succeeds
RR_Fetch ==
  /\ pc = "rr_fetch"
  /\ Do("git fetch upstream")
  /\ \E ok \in BOOLEAN :
       IF ok
         THEN /\ Mark("fetch", "pass")
              /\ upstreamMain' = C_up
              /\ pc' = "rr_backup"
              /\ UNCHANGED << exitCode, rrExit >>
         ELSE /\ Mark("fetch", "fail")
              /\ UNCHANGED upstreamMain
              /\ RRReturn(1)
  /\ UNCHANGED << script, app, out, head, curBranch, branches, worktreeClean,
                  upstreamRemote, rebaseInProgress, conflict, staged,
                  hist, rb, rs, sy, hc >>

\* backup_branch="backup/before-rebase-$(date +%Y%m%d)"; rev-parse --verify
RR_Backup ==
  /\ pc = "rr_backup"
  /\ IF Br("backup", Today, NoTime) \in DOMAIN branches
       THEN Mark("backup", "warn") /\ Say("Backup branch already exists")
       ELSE Mark("backup", "pass") /\ Say("Will create backup")
  /\ pc' = "rr_tests"
  /\ UNCHANGED << script, app, exitCode, ops, git, hist, rrExit, rb, rs, sy, hc >>

\* (variant: a failing test run does not stop the script)
RR_Tests_ignoresFailure ==
  /\ pc = "rr_tests"
  /\ Do("bun run test:unit")
  /\ \E ok \in BOOLEAN :
       /\ Mark("tests", IF ok THEN "pass" ELSE "fail")
       /\ Say("Ready to rebase!")
       /\ RRReturn(0)
  /\ UNCHANGED << script, app, git, hist, rb, rs, sy, hc >>

\* bun run test:unit, then the summary and the end of the script (status 0)
RR_Tests ==
  /\ pc = "rr_tests"
  /\ Do("bun run test:unit")
  /\ \E ok \in BOOLEAN :
       IF ok
         THEN /\ Mark("tests", "pass")
              /\ Say("Ready to rebase!")
              /\ RRReturn(0)
         ELSE /\ Mark("tests", "fail")
              /\ Say("Tests are failing on current branch")
              /\ RRReturn(1)
  /\ UNCHANGED << script, app, git, hist, rb, rs, sy, hc >>

\* ---------------------------------------------- rebase-from-upstream.sh
\* if ! ./scripts/check-rebase-readiness.sh   (the call)
RB_Readiness ==
  /\ pc = "rb_readiness"
  /\ pc' = "rr_clean"
  /\ UNCHANGED << script, app, exitCode, out, ops, git, hist, rr, rb, rs, sy, hc >>

\* ... then "Readiness check failed", exit 1   (the test of its status)
RB_Check ==
  /\ pc = "rb_check"
  /\ IF rrExit # 0
       THEN Say("Readiness check failed") /\ Exit(1)
       ELSE pc' = "rb_confirm" /\ UNCHANGED << out, exitCode >>
  /\ UNCHANGED << script, app, ops, git, hist, rr, rb, rs, sy, hc >>

\* what read -n 1 can put in REPLY; "EOF": read hits end of input and fails
Replies == { "y", "Y", "n", "" }
EndOfInput == "EOF"

\* (variant: any key confirms)
Confirmed_anyKey(r) == r # ""

\* [[ $REPLY =~ ^[Yy]$ ]]
Confirmed(r) == r \in { "y", "Y" }

RB_Confirm ==
  /\ pc = "rb_confirm"
  /\ \E r \in Replies \cup { EndOfInput } :
       /\ REPLY' = r
       /\ IF r = EndOfInput
            THEN Exit(1) /\ UNCHANGED out
            ELSE IF ~Confirmed(r)
                   THEN Say("Aborted.") /\ Exit(0)
                   ELSE pc' = "rb_backup" /\ UNCHANGED << out, exitCode >>
  /\ UNCHANGED << script, app, ops, git, hist, rr, backup_branch,
                  integration_branch, rs, sy, hc >>

\* (variant: the new branch is started at upstream/main)
GitBranch_atUpstream(name) == branches' = branches @@ (name :> upstreamMain)

\* git branch <name>: the new branch points at HEAD
GitBranch(name) == branches' = branches @@ (name :> head)

\* git branch "$backup_branch", fatal (set -e ends the script) if it exists
RB_Backup ==
  /\ pc = "rb_backup"
  /\ backup_branch' = Br("backup", Today, Now)
  /\ Do("git branch backup")
  /\ IF backup_branch' \in DOMAIN branches
       THEN Exit(128) /\ UNCHANGED << branches, out >>
       ELSE /\ GitBranch(backup_branch')
            /\ Say("Backup created")
            /\ pc' = "rb_integration"
            /\ UNCHANGED exitCode
  /\ UNCHANGED << script, app, head, curBranch, worktreeClean, upstreamRemote,
                  upstreamMain, rebaseInProgress, conflict, staged, hist,
                  rr, REPLY, integration_branch, rs, sy, hc >>

\* git checkout -b "$integration_branch": fatal if it exists
RB_Integration ==
  /\ pc = "rb_integration"
  /\ integration_branch' = Br("integrate", Today, NoTime)
  /\ Do("git checkout -b integration")
  /\ IF integration_branch' \in DOMAIN branches
       THEN Exit(128) /\ UNCHANGED << branches, curBranch, out >>
       ELSE /\ GitBranch(integration_branch')
            /\ curBranch' = integration_branch'
            /\ Say("Branch created")
            /\ pc' = "rb_rebase"
            /\ UNCHANGED exitCode
  /\ UNCHANGED << script, app, head, worktreeClean, upstreamRemote,
                  upstreamMain, rebaseInProgress, conflict, staged, hist,
                  rr, REPLY, backup_branch, rs, sy, hc >>

\* the ways a rebase can stop: at most MaxConflicts unmerged paths
ConflictStates ==
  UNION { { [ f \in Files |-> IF f \in S THEN st[f] ELSE Clean ] :
              st \in [ S -> Unmerged ] } :
          S \in { T \in SUBSET Files :
                    Cardinality(T) >= 1 /\ Cardinality(T) <= MaxConflicts } }

\* git rebase upstream/main replays the fork's commits on upstream/main.
\* It completes (status 0): the current branch moves to the replayed commits
GitRebaseCompletes ==
  /\ head' = C_rebased
  /\ branches' = [ branches EXCEPT ![curBranch] = C_rebased ]
  /\ UNCHANGED << curBranch, rebaseInProgress, conflict, staged, conflict0 >>

\* or it stops on conflicts (status 1): HEAD is detached on the new base and
\* the index holds the unmerged paths
GitRebaseStops(cs) ==
  /\ head' = C_onto
  /\ curBranch' = Detached
  /\ rebaseInProgress' = TRUE
  /\ conflict' = cs
  /\ conflict0' = cs
  /\ UNCHANGED << branches, staged >>

\* or it refuses to start (status 1 or 128): nothing changes
GitRebaseRefuses ==
  UNCHANGED << head, curBranch, branches, rebaseInProgress, conflict,
               staged, conflict0 >>

\* if git rebase upstream/main; then ... else ... fi
RB_Rebase ==
  /\ pc = "rb_rebase"
  /\ Do("git rebase upstream/main")
  /\ \/ /\ GitRebaseCompletes
        /\ Say("Rebase completed without conflicts!")
        /\ pc' = "rb_tests"
     \/ /\ \E cs \in ConflictStates : GitRebaseStops(cs)
        /\ Say("Conflicts detected")
        /\ pc' = "rb_resolve"
     \/ /\ GitRebaseRefuses
        /\ Say("Conflicts detected")
        /\ pc' = "rb_resolve"
  /\ UNCHANGED << script, app, exitCode, worktreeClean, upstreamRemote,
                  upstreamMain, branches0, curBranch0, rr, rb, rs, sy, hc >>

\* (variant: the script reports success without running the tests)
RB_Tests_skipped ==
  /\ pc = "rb_tests"
  /\ Say("Rebase Successful")
  /\ Exit(0)
  /\ UNCHANGED << script, app, ops, git, hist, rr, rb, rs, sy, hc >>

\* if bun run test:unit; then "Rebase Successful" else "Tests failed" fi,
\* and the script ends after the fi: status 0 of the last echo either way
RB_Tests ==
  /\ pc = "rb_tests"
  /\ Do("bun run test:unit")
  /\ \E ok \in BOOLEAN :
       IF ok
         THEN Say2("All tests passed", "Rebase Successful")
         ELSE Say("Tests failed")
  /\ Exit(0)
  /\ UNCHANGED << script, app, git, hist, rr, rb, rs, sy, hc >>

\* ./scripts/resolve-rebase-conflicts.sh   (the call)
RB_Resolve ==
  /\ pc = "rb_resolve"
  /\ pc' = "rs_check"
  /\ UNCHANGED << script, app, exitCode, out, ops, git, hist, rr, rb, rs, sy, hc >>

\* set -e ends the script with the helper's status if it is not 0; else the
\* "Manual Intervention Required" text and the end of the script
RB_Manual ==
  /\ pc = "rb_manual"
  /\ IF rsExit # 0
       THEN Exit(rsExit) /\ UNCHANGED out
       ELSE Say("Manual Intervention Required") /\ Exit(0)
  /\ UNCHANGED << script, app, ops, git, hist, rr, rb, rs, sy, hc >>

\* ------------------------------------------ resolve-rebase-conflicts.sh
RSReturn(code) ==
  /\ rsExit' = code
  /\ IF script = "rebase"
       THEN pc' = "rb_manual" /\ UNCHANGED exitCode
       ELSE Exit(code)

\* git status | grep -q "rebase in progress"
RS_Check ==
  /\ pc = "rs_check"
  /\ IF ~rebaseInProgress
       THEN Say("Not in a rebase") /\ RSReturn(1)
       ELSE /\ Say("Auto-resolving tooling configuration conflicts...")
            /\ pc' = "rs_keep"
            /\ UNCHANGED << exitCode, rsExit >>
  /\ UNCHANGED << script, app, ops, git, hist, rr, rb, resolved_count, idx,
                  remaining, sy, hc >>

\* the regular expression .*$file matches every path that contains $file
Contains(path, file) ==
  \/ path = file
  \/ file = "package.json" /\ path = "src/app/ui/package.json"

\* git status --porcelain | grep -q "^UU.*$file\|^DU.*$file\|^UD.*$file"
PorcelainGrep(file) ==
  \E path \in Files :
    conflict[path] \in { "UU", "DU", "UD" } /\ Contains(path, file)

\* git show :2:"$file": the path has a stage-2 entry in the index
HasStage2(file) == conflict[file] \in { "UU", "UD", "AA" }

\* the status of (( v++ )): 1 when the value of the expression, the old v,
\* is 0
PostIncrementStatus(v) == IF v = 0 THEN 1 ELSE 0

\* git checkout --ours "$file"; git add "$file": stage 2 goes to the
\* working tree and is staged as the resolution
CheckoutOursAndAdd(file) ==
  /\ staged' = [ staged EXCEPT ![file] = Upstream ]
  /\ conflict' = [ conflict EXCEPT ![file] = Clean ]

\* one turn of: for file in "${KEEP_OURS[@]}"
RS_KeepOurs ==
  /\ pc = "rs_keep"
  /\ idx <= Len(KEEP_OURS)
  /\ LET file == KEEP_OURS[idx] IN
       IF PorcelainGrep(file) /\ HasStage2(file)
         THEN /\ CheckoutOursAndAdd(file)
              /\ Say("Keeping our version")
              /\ resolved_count' = resolved_count + 1
              /\ IF PostIncrementStatus(resolved_count) # 0
                   THEN RSReturn(1) /\ UNCHANGED idx
                   ELSE /\ idx' = idx + 1
                        /\ UNCHANGED << pc, exitCode, rsExit >>
         ELSE /\ IF PorcelainGrep(file)
                   THEN Say("File deleted in our version, skipping")
                   ELSE UNCHANGED out
              /\ idx' = idx + 1
              /\ UNCHANGED << pc, exitCode, rsExit, resolved_count,
                              conflict, staged >>
  /\ UNCHANGED << script, app, ops, head, curBranch, branches, worktreeClean,
                  upstreamRemote, upstreamMain, rebaseInProgress, hist,
                  rr, rb, remaining, sy, hc >>

\* git diff --name-only --diff-filter=U
UnmergedPaths == { f \in Files : conflict[f] # Clean }

\* after both loops (TAKE_THEIRS is empty, its loop body never runs): the
\* resolution summary, the remaining conflicts, end of the script
RS_Summary ==
  /\ pc = "rs_keep"
  /\ idx > Len(KEEP_OURS)
  /\ Len(TAKE_THEIRS) = 0
  /\ remaining' = Cardinality(UnmergedPaths)
  /\ IF remaining' > 0
       THEN Say2("Resolution Summary", "Manual resolution needed")
       ELSE Say2("Resolution Summary", "All conflicts resolved!")
  /\ RSReturn(0)
  /\ UNCHANGED << script, app, ops, git, hist, rr, rb, resolved_count, idx,
                  sy, hc >>


\* ----------------------------------------------------- sync-upstream.sh
\* git fetch upstream under set -e
SY_Fetch ==
  /\ pc = "sy_fetch"
  /\ Do("git fetch upstream")
  /\ \E ok \in { upstreamRemote, FALSE } :
       IF ok
         THEN /\ upstreamMain' = C_up
              /\ pc' = "sy_count"
              /\ UNCHANGED exitCode
         ELSE /\ UNCHANGED upstreamMain
              /\ Exit(128)
  /\ UNCHANGED << script, app, out, head, curBranch, branches, worktreeClean,
                  upstreamRemote, rebaseInProgress, conflict, staged,
                  hist, rr, rb, rs, sy, hc >>

\* upstream_commits=$(git log --oneline HEAD..upstream/main | wc -l)
SY_Count ==
  /\ pc = "sy_count"
  /\ \E n \in 0..MaxCommits :
       /\ upstream_commits' = n
       /\ IF n = 0
            THEN Say("Fork is current with upstream") /\ Exit(0)
            ELSE pc' = "sy_preview" /\ UNCHANGED << out, exitCode >>
  /\ UNCHANGED << script, app, ops, git, hist, rr, rb, rs, preview, confirm, hc >>

\* git merge-tree ... | grep -q "<<<<<<< "
SY_Preview ==
  /\ pc = "sy_preview"
  /\ \E marker \in BOOLEAN :
       IF marker
         THEN /\ preview' = "conflicts"
              /\ Say("Conflicts detected - manual resolution required")
              /\ Exit(1)
         ELSE /\ preview' = "clean"
              /\ Say("Clean integration possible")
              /\ pc' = "sy_confirm"
              /\ UNCHANGED exitCode
  /\ UNCHANGED << script, app, ops, git, hist, rr, rb, rs, upstream_commits,
                  confirm, hc >>

\* what read can put in confirm (a whole line)
Answers == { "y", "yEs", "n", "yep", "" }

\* a test that takes every answer beginning with y or Y
Agreed_anyYWord(a) ==
  a \in { "y", "Y", "yes", "yeS", "yEs", "yES", "Yes", "YeS", "YEs", "YES",
          "yep" }

\* [[ $confirm == [yY] || $confirm == [yY][eE][sS] ]]
Agreed(a) ==
  a \in { "y", "Y", "yes", "yeS", "yEs", "yES", "Yes", "YeS", "YEs", "YES" }

SY_Confirm ==
  /\ pc = "sy_confirm"
  /\ \E a \in Answers \cup { EndOfInput } :
       /\ confirm' = a
       /\ IF a = EndOfInput
            THEN Exit(1) /\ UNCHANGED out
            ELSE IF Agreed(a)
                   THEN /\ Say("Starting rebase...")
                        /\ pc' = "sy_rebase"
                        /\ UNCHANGED exitCode
                   ELSE /\ Say("Sync cancelled - run manually when ready")
                        /\ Exit(0)
  /\ UNCHANGED << script, app, ops, git, hist, rr, rb, rs, upstream_commits,
                  preview, hc >>

\* git rebase upstream/main under set -e, then "Upstream sync complete!";
\* git rebase refuses to start on a working tree that is not clean
SY_Rebase ==
  /\ pc = "sy_rebase"
  /\ Do("git rebase upstream/main")
  /\ \/ /\ worktreeClean
        /\ GitRebaseCompletes
        /\ Say("Upstream sync complete!")
        /\ Exit(0)
     \/ /\ worktreeClean
        /\ \E cs \in ConflictStates : GitRebaseStops(cs)
        /\ UNCHANGED out
        /\ Exit(1)
     \/ /\ GitRebaseRefuses
        /\ UNCHANGED out
        /\ Exit(1)
  /\ UNCHANGED << script, app, worktreeClean, upstreamRemote, upstreamMain,
                  branches0, curBranch0, rr, rb, rs, sy, hc >>

\* -------------------------------------------------------- fork-health.sh
total_checks == 6

\* if <command>; then var=yes else var=no fi, for the three bun run checks
HCRun(check, field, yes, no, next) ==
  \E ok \in BOOLEAN :
    /\ health' = [ health EXCEPT ![field] = IF ok THEN yes ELSE no ]
    /\ passed' = IF ok THEN passed \cup { check } ELSE passed
    /\ pc' = next

HC_Build ==
  /\ pc = "hc_build"
  /\ HCRun("build", "build_status", "pass", "fail", "hc_test")
  /\ UNCHANGED << script, app, exitCode, out, ops, git, hist, rr, rb, rs, sy >>

HC_Test ==
  /\ pc = "hc_test"
  /\ HCRun("tests", "test_status", "pass", "fail", "hc_ts")
  /\ UNCHANGED << script, app, exitCode, out, ops, git, hist, rr, rb, rs, sy >>

HC_TypeScript ==
  /\ pc = "hc_ts"
  /\ HCRun("typecheck", "ts_status", "pass", "issues", "hc_bun")
  /\ UNCHANGED << script, app, exitCode, out, ops, git, hist, rr, rb, rs, sy >>

\* if <tool> --version; then var=$(<tool> --version) fi: the variable stays
\* unset (empty) when the tool is not available
HC_Bun ==
  /\ pc = "hc_bun"
  /\ HCRun("Bun", "bun_version", "1.2", "", "hc_lefthook")
  /\ UNCHANGED << script, app, exitCode, out, ops, git, hist, rr, rb, rs, sy >>

HC_Lefthook ==
  /\ pc = "hc_lefthook"
  /\ HCRun("Lefthook", "lefthook_version", "1.7", "", "hc_biome")
  /\ UNCHANGED << script, app, exitCode, out, ops, git, hist, rr, rb, rs, sy >>

HC_Biome ==
  /\ pc = "hc_biome"
  /\ HCRun("BiomeJS", "biome_version", "2.0", "", "hc_score")
  /\ UNCHANGED << script, app, exitCode, out, ops, git, hist, rr, rb, rs, sy >>

\* [ test ] && ((health_score++)), six times
Tally(h) ==
  (IF h.build_status = "pass" THEN 1 ELSE 0)
  + (IF h.test_status = "pass" THEN 1 ELSE 0)
  + (IF h.ts_status # "fail" THEN 1 ELSE 0)
  + (IF h.bun_version # "" THEN 1 ELSE 0)
  + (IF h.lefthook_version # "" THEN 1 ELSE 0)
  + (IF h.biome_version # "" THEN 1 ELSE 0)

\* health_percentage=$((health_score * 100 / total_checks))
Percentage(score) == (score * 100) \div total_checks

HC_Score ==
  /\ pc = "hc_score"
  /\ health' = [ health EXCEPT !.health_score = Tally(health),
                               !.health_percentage = Percentage(Tally(health)) ]
  /\ Say("Fork Health Summary")
  /\ Exit(0)
  /\ UNCHANGED << script, app, ops, git, hist, rr, rb, rs, sy, passed >>

\* ---------------------------------------------------------- the system
Next ==
  \/ RR_Clean \/ RR_Branch \/ RR_Remote \/ RR_Fetch \/ RR_Backup \/ RR_Tests
  \/ RB_Readiness \/ RB_Check \/ RB_Confirm \/ RB_Backup \/ RB_Integration
  \/ RB_Rebase \/ RB_Tests \/ RB_Resolve \/ RB_Manual
  \/ RS_Check \/ RS_KeepOurs \/ RS_Summary
  \/ SY_Fetch \/ SY_Count \/ SY_Preview \/ SY_Confirm \/ SY_Rebase
  \/ HC_Build \/ HC_Test \/ HC_TypeScript \/ HC_Bun \/ HC_Lefthook
  \/ HC_Biome \/ HC_Score

Spec == Init /\ [][Next]_vars

\* ------------------------------------------------------------ properties
Printed(m) == \E k \in 1..Len(out) : out[k] = m
Ran(o) == \E k \in 1..Len(ops) : ops[k] = o
\* command a was run, and command b at some later point of the same run
RanBefore(a, b) ==
  \E j \in 1..Len(ops) : \E k \in 1..Len(ops) :
    j < k /\ ops[j] = a /\ ops[k] = b

RebaseCmd == "git rebase upstream/main"
TestCmd == "bun run test:unit"

\* C1: in every run of rebase-from-upstream.sh that reaches git rebase
\* upstream/main, a branch backup/before-rebase-<timestamp> was created in
\* this run at the pre-rebase HEAD, before the integration branch was
\* created and before the rebase started; once created, it stays at that
\* commit in every later state of the run.
C1_BackupBeforeRebase ==
  script = "rebase" =>
    /\ Printed("Backup created") =>
         /\ backup_branch.kind = "backup"
         /\ backup_branch.date = Today
         /\ backup_branch.time # NoTime
         /\ backup_branch \notin DOMAIN branches0
         /\ backup_branch \in DOMAIN branches
         /\ branches[backup_branch] = C_fork
    /\ Ran(RebaseCmd) =>
         /\ Printed("Backup created")
         /\ RanBefore("git branch backup", "git checkout -b integration")
         /\ RanBefore("git checkout -b integration", RebaseCmd)

\* a run that rebased to the end, with the backup still at the old HEAD
C1_Witness ==
  /\ script = "rebase"
  /\ pc = "done"
  /\ Ran(RebaseCmd)
  /\ head = C_rebased
  /\ branches[backup_branch] = C_fork

\* C2 (as claimed): when resolve-rebase-conflicts.sh stages a KEEP_OURS file
\* that was in conflict with both sides present (UU), the staged version is
\* the fork's own version, not upstream's.
C2_StagesForkVersion ==
  \A f \in SeqRange(KEEP_OURS) :
    (conflict0[f] = "UU" /\ staged[f] # NoContent) => staged[f] = Fork

\* C3 (as claimed): whenever resolve-rebase-conflicts.sh has run during a
\* rebase and ended, it went through every entry of KEEP_OURS, printed the
\* resolution summary with the number of files still in conflict, and
\* exited 0, whatever the number of files it auto-resolved.
C3_SummaryAndExitZero ==
  (rebaseInProgress /\ rsExit # NotExited) =>
    /\ rsExit = 0
    /\ idx > Len(KEEP_OURS)
    /\ Printed("Resolution Summary")
    /\ remaining = Cardinality(UnmergedPaths)

\* C4 (as claimed): rebase-from-upstream.sh exits with a non-zero status
\* when the readiness check failed, the rebase stopped on conflicts or the
\* post-rebase unit tests failed, and with 0 when the rebase completed and
\* the tests passed.
C4_ExitStatusReportsOutcome ==
  (script = "rebase" /\ pc = "done") =>
    /\ (rrExit \notin { 0, NotExited }) => exitCode # 0
    /\ Printed("Conflicts detected") => exitCode # 0
    /\ Printed("Tests failed") => exitCode # 0
    /\ Printed("Rebase Successful") => exitCode = 0

C6_ReadmeFilesAutoResolved ==
  (rebaseInProgress /\ rsExit = 0) =>
    \A f \in README_KEPT :
      conflict0[f] = "UU" => (conflict[f] = Clean /\ staged[f] # NoContent)

\* C7: rebase-from-upstream.sh creates no branch, switches no branch and
\* starts no rebase unless the readiness check exited 0 and the user then
\* answered y or Y; when the user answers anything else, it prints
\* "Aborted." and exits 0 with all branches and HEAD as they were.
C7_NothingWithoutConfirmation ==
  script = "rebase" =>
    /\ ( \/ branches # branches0
         \/ curBranch # curBranch0
         \/ head # C_fork
         \/ rebaseInProgress
         \/ Ran("git branch backup")
         \/ Ran("git checkout -b integration")
         \/ Ran(RebaseCmd) )
       => (rrExit = 0 /\ REPLY \in { "y", "Y" })
    /\ (REPLY \in Replies \ { "y", "Y" }) =>
         /\ pc = "done"
         /\ exitCode = 0
         /\ Len(out) > 0
         /\ out[Len(out)] = "Aborted."
         /\ branches = branches0
         /\ curBranch = curBranch0
         /\ head = C_fork
         /\ ~rebaseInProgress

\* the user declined after a successful readiness check
C7_Witness ==
  /\ script = "rebase"
  /\ rrExit = 0
  /\ REPLY = "n"
  /\ pc = "done"
  /\ Printed("Aborted.")

CheckOrder == << "clean", "branch", "remote", "fetch", "backup", "tests" >>
Fatal == { "clean", "remote", "fetch", "tests" }

\* C8: check-rebase-readiness.sh prints "Ready to rebase!" and exits 0 only
\* if the working tree is clean, the upstream remote is configured, git
\* fetch upstream succeeded and the unit tests passed; a failure of one of
\* these makes it exit 1 at that check with the later checks not run; an
\* unexpected branch name or an existing backup branch is only a warning.
C8_ReadyOnlyIfAllPass ==
  script \in { "readiness", "rebase" } =>
    /\ (Printed("Ready to rebase!") \/ rrExit = 0) =>
         /\ worktreeClean
         /\ upstreamRemote
         /\ checks["fetch"] = "pass"
         /\ checks["tests"] = "pass"
         /\ Printed("Ready to rebase!")
         /\ rrExit = 0
    /\ \A k \in 1..Len(CheckOrder) :
         checks[CheckOrder[k]] = "fail" =>
           /\ CheckOrder[k] \in Fatal
           /\ rrExit = 1
           /\ \A j \in (k + 1)..Len(CheckOrder) :
                checks[CheckOrder[j]] = "unrun"
    /\ rrExit \notin { 0, NotExited } =>
         \E c \in Fatal : checks[c] = "fail"
    /\ \A c \in { "branch", "backup" } : checks[c] # "fail"

\* ready in spite of both warnings
C8_Witness ==
  /\ script = "readiness"
  /\ pc = "done"
  /\ exitCode = 0
  /\ checks["branch"] = "warn"
  /\ checks["backup"] = "warn"
  /\ Printed("Ready to rebase!")

\* C9 (as claimed): whenever sync-upstream.sh performs its automatic git
\* rebase upstream/main, a backup branch pointing at the pre-rebase HEAD has
\* been created earlier in the same run.
C9_SyncBackupBeforeRebase ==
  (script = "sync" /\ Ran(RebaseCmd)) =>
    \E b \in DOMAIN branches \ DOMAIN branches0 :
      b.kind = "backup" /\ branches[b] = C_fork

\* C10 (as claimed): the health score of fork-health.sh equals the number
\* of its six checks that passed, and the percentage is
\* floor(100 * score / 6).
C10_ScoreCountsPassedChecks ==
  (script = "health" /\ pc = "done") =>
    /\ health.health_score = Cardinality(passed)
    /\ health.health_percentage = (100 * health.health_score) \div 6

\* ------------------------------------------------ idle scripts
\* the state of the scripts in the specifications of the components
CtlIdle ==
  /\ script = "none"
  /\ pc = "idle"
  /\ exitCode = NotExited
  /\ out = << >>
  /\ ops = << >>

RepoIdle ==
  /\ head = C_fork
  /\ curBranch = Main
  /\ branches = [ b \in { Main } |-> C_fork ]
  /\ worktreeClean = TRUE
  /\ upstreamRemote = FALSE
  /\ upstreamMain = "none"
  /\ rebaseInProgress = FALSE
  /\ conflict = [ f \in Files |-> Clean ]
  /\ staged = [ f \in Files |-> NoContent ]
  /\ branches0 = branches
  /\ curBranch0 = curBranch
  /\ conflict0 = conflict
  /\ checks = [ c \in CheckNames |-> "unrun" ]
  /\ rrExit = NotExited
  /\ REPLY = "unread"
  /\ backup_branch = Detached
  /\ integration_branch = Detached
  /\ resolved_count = 0
  /\ idx = 1
  /\ remaining = 0
  /\ rsExit = NotExited
  /\ upstream_commits = 0
  /\ preview = "unrun"
  /\ confirm = "unread"
  /\ health = [ build_status |-> "", test_status |-> "", ts_status |-> "",
                bun_version |-> "", lefthook_version |-> "",
                biome_version |-> "", health_score |-> 0,
                health_percentage |-> 0 ]
  /\ passed = {}

repo == << git, hist, rr, rb, rs, sy, hc >>

ScriptsIdle == CtlIdle /\ RepoIdle

scripts == << ctl, repo >>

\* ------------------------------------------------ createContextManager
\* provider strings a configuration may carry
ProviderInputs ==
  { "openai", "OpenAI", "openrouter", "ollama", "lmstudio", "qwen", "gemini",
    "deepseek", "DeepSeek", "azure", "AZURE", "anthropic", "Anthropic",
    "aws", "mistral", "google", "" }

\* String.prototype.toLowerCase on ProviderInputs
toLowerCase(s) ==
  CASE s = "OpenAI" -> "openai"
    [] s = "DeepSeek" -> "deepseek"
    [] s = "AZURE" -> "azure"
    [] s = "Anthropic" -> "anthropic"
    [] OTHER -> s

\* the names listed in the message of the default branch
SupportedProvidersText ==
  << "openai", "anthropic", "openrouter", "ollama", "lmstudio", "qwen",
     "aws", "azure", "gemini", "deepseek" >>

UnsupportedProvider(provider) ==
  [ threw |-> TRUE,
    error |-> [ message |-> "Unsupported provider", provider |-> provider,
                supported |-> SupportedProvidersText ] ]

Formatter(class) == [ threw |-> FALSE, formatter |-> class ]

\* the switch without its case 'aws'
getFormatter_withoutAws(provider) ==
  LET normalizedProvider == toLowerCase(provider) IN
    CASE normalizedProvider \in { "openai", "openrouter", "ollama",
                                  "lmstudio", "qwen", "gemini", "deepseek" }
           -> Formatter("OpenAIMessageFormatter")
      [] normalizedProvider = "azure" -> Formatter("AzureMessageFormatter")
      [] normalizedProvider = "anthropic"
           -> Formatter("AnthropicMessageFormatter")
      [] OTHER -> UnsupportedProvider(provider)

getFormatter(provider) ==
  LET normalizedProvider == toLowerCase(provider) IN
    CASE normalizedProvider \in { "openai", "openrouter", "ollama",
                                  "lmstudio", "qwen", "gemini", "deepseek" }
           -> Formatter("OpenAIMessageFormatter")
      [] normalizedProvider = "azure" -> Formatter("AzureMessageFormatter")
      [] normalizedProvider \in { "anthropic", "aws" }
           -> Formatter("AnthropicMessageFormatter")
      [] OTHER -> UnsupportedProvider(provider)

\* LLMConfigSchema.parse(config) throws exactly when config.valid is FALSE
InvalidConfiguration ==
  [ message |-> "Invalid LLM configuration", provider |-> "",
    supported |-> << >> ]

createContextManager ==
  /\ cmOutcome = Pending
  /\ IF ~config.valid
       THEN /\ cmOutcome' = [ kind |-> "threw", error |-> InvalidConfiguration ]
            /\ UNCHANGED managers
       ELSE LET f == getFormatter(config.provider) IN
              IF f.threw
                THEN /\ cmOutcome' = [ kind |-> "threw", error |-> f.error ]
                     /\ UNCHANGED managers
                ELSE /\ managers' = managers \cup
                          { [ formatter |-> f.formatter,
                              historyProvider |-> historyProvider,
                              sessionId |-> sessionId ] }
                     /\ cmOutcome' = [ kind |-> "returned",
                                       formatter |-> f.formatter ]
  /\ UNCHANGED << config, historyProvider, sessionId, scripts, notCM >>

InitContextManager ==
  /\ ScriptsIdle
  /\ config \in [ valid : BOOLEAN, provider : ProviderInputs,
                  model : { "gpt-4", "" } ]
  /\ historyProvider \in BOOLEAN
  /\ sessionId \in { "", "s1" }
  /\ cmOutcome = Pending
  /\ managers = {}
  /\ IdleButCM

NextContextManager == createContextManager

SpecContextManager == InitContextManager /\ [][NextContextManager]_vars

\* the providers createContextManager accepts
AcceptedProviders ==
  { "openai", "openrouter", "ollama", "lmstudio", "qwen", "gemini",
    "deepseek", "azure", "anthropic", "aws" }

Acceptable ==
  config.valid /\ toLowerCase(config.provider) \in AcceptedProviders

\* C11: createContextManager returns a ContextManager exactly for a
\* configuration the schema accepts whose provider, in lower case, is one of
\* the ten accepted names; for every other input it throws "Invalid LLM
\* configuration" or "Unsupported provider" and no ContextManager has been
\* constructed; the names listed in the "Unsupported provider" message are
\* exactly the providers getFormatter accepts.
C11_ManagerOnlyForAcceptedProvider ==
  /\ cmOutcome.kind = "returned" => Acceptable /\ Cardinality(managers) = 1
  /\ cmOutcome.kind = "threw" =>
       /\ ~Acceptable
       /\ managers = {}
       /\ cmOutcome.error.message
            = IF config.valid THEN "Unsupported provider"
                              ELSE "Invalid LLM configuration"
  /\ (cmOutcome.kind = "threw"
        /\ cmOutcome.error.message = "Unsupported provider") =>
       /\ SeqRange(cmOutcome.error.supported) = AcceptedProviders
       /\ \A p \in ProviderInputs :
            getFormatter(p).threw
              <=> toLowerCase(p) \notin SeqRange(cmOutcome.error.supported)

\* a provider written in mixed case has been accepted
C11_Witness ==
  /\ cmOutcome.kind = "returned"
  /\ config.provider = "DeepSeek"
  /\ managers # {}

\* ------------------------------------------------ docker/scripts/build.sh
\* ops records the stages main has started, out the lines that tell how the
\* run went
StageOrder ==
  << "validate_environment", "install_dependencies", "build_application",
     "cleanup_build", "verify_build" >>

\* error_exit: the message, then exit 1
error_exit(m) == Say(m) /\ Exit(1)

BS_Validate ==
  /\ script = "build" /\ pc = "bs_validate"
  /\ Do("validate_environment")
  /\ IF ~fsys.package_json
       THEN error_exit("ERROR: package.json not found")
       ELSE IF ~fsys.bun
              THEN error_exit("ERROR: Bun runtime not found")
              ELSE /\ pc' = "bs_install"
                   /\ IF fsys.low_disk
                        THEN Say("WARNING: Low disk space")
                        ELSE UNCHANGED out
                   /\ UNCHANGED exitCode
  /\ UNCHANGED << script, bld, repo, notBuild >>

\* if bun install $install_args; then ... else error_exit
BS_Install ==
  /\ script = "build" /\ pc = "bs_install"
  /\ Do("install_dependencies")
  /\ \E installed \in BOOLEAN :
       IF installed
         THEN /\ fsys' = [ fsys EXCEPT !.node_modules = TRUE ]
              /\ Say("Dependencies installed successfully")
              /\ pc' = "bs_build"
              /\ UNCHANGED exitCode
         ELSE /\ error_exit("ERROR: Failed to install dependencies")
              /\ UNCHANGED fsys
  /\ UNCHANGED << script, BUILD_UI, NODE_ENV, ENABLE_CACHE, build_cmd, repo,
                  notBuild >>

\* the build script named by BUILD_UI, or its fallback when the probe
\* bun run --silent $build_cmd --dry-run fails
BuildCmd(found) ==
  IF BUILD_UI = "true"
    THEN IF found THEN "compile" ELSE "build"
    ELSE IF found THEN "compile:no-ui" ELSE "build:backend"

\* what a build leaves in dist/, given what was there
Written(before, made) == IF made = "none" THEN before ELSE made

BS_Build ==
  /\ script = "build" /\ pc = "bs_build"
  /\ Do("build_application")
  /\ \E found \in BOOLEAN : build_cmd' = BuildCmd(found)
  /\ \E compiled \in BOOLEAN : \E made \in DistStates :
       /\ fsys' = [ fsys EXCEPT !.dist = Written(fsys.dist, made) ]
       /\ IF compiled
            THEN /\ IF fsys'.dist = "none"
                      THEN Say("Warning: dist directory not found after build")
                      ELSE Say("Application built successfully")
                 /\ pc' = "bs_cleanup"
                 /\ UNCHANGED exitCode
            ELSE error_exit("ERROR: Failed to build application")
  /\ UNCHANGED << script, BUILD_UI, NODE_ENV, ENABLE_CACHE, repo, notBuild >>

\* every command of cleanup_build ends in || true
BS_Cleanup ==
  /\ script = "build" /\ pc = "bs_cleanup"
  /\ Do("cleanup_build")
  /\ IF NODE_ENV = "production"
       THEN Say("Production cleanup completed")
       ELSE UNCHANGED out
  /\ pc' = "bs_verify"
  /\ UNCHANGED << script, exitCode, bld, repo, notBuild >>

\* [ -f dist/cipher ] || [ -f dist/index.js ], else errors=$((errors + 1))
errors == IF fsys.dist \in { "cipher", "index.js" } THEN 0 ELSE 1

\* verify_build without the final test of $errors
BS_Verify_unchecked ==
  /\ script = "build" /\ pc = "bs_verify"
  /\ Do("verify_build")
  /\ Say2("Build verification passed",
          "Build process completed successfully!")
  /\ Exit(0)
  /\ UNCHANGED << script, bld, repo, notBuild >>

\* verify_build, then the last line of main
BS_Verify ==
  /\ script = "build" /\ pc = "bs_verify"
  /\ Do("verify_build")
  /\ IF errors = 0
       THEN /\ Say2("Build verification passed",
                    "Build process completed successfully!")
            /\ Exit(0)
       ELSE error_exit("ERROR: Build verification failed")
  /\ UNCHANGED << script, bld, repo, notBuild >>

InitBuild ==
  /\ script = "build"
  /\ pc = "bs_validate"
  /\ exitCode = NotExited
  /\ out = << >>
  /\ ops = << >>
  /\ RepoIdle
  /\ BUILD_UI \in { "true", "false" }
  /\ NODE_ENV \in { "production", "development" }
  /\ ENABLE_CACHE \in { "true", "false" }
  /\ fsys \in [ package_json : BOOLEAN, bun : BOOLEAN,
                node_modules : { FALSE }, dist : { "none", "index.js" },
                memAgent : BOOLEAN, low_disk : BOOLEAN ]
  /\ build_cmd = ""
  /\ IdleButBuild

NextBuild ==
  \/ BS_Validate \/ BS_Install \/ BS_Build \/ BS_Cleanup \/ BS_Verify

SpecBuild == InitBuild /\ [][NextBuild]_vars

\* the stage a message of error_exit comes from
FailedStage(m) ==
  CASE m \in { "ERROR: package.json not found", "ERROR: Bun runtime not found" }
         -> 1
    [] m = "ERROR: Failed to install dependencies" -> 2
    [] m = "ERROR: Failed to build application" -> 3
    [] m = "ERROR: Build verification failed" -> 5
    [] OTHER -> 0

Succeeded == "Build process completed successfully!"

\* C12: the stages of build.sh start in the order validate, install, build,
\* cleanup, verify; a run that ends with a failure ends with status 1 right
\* after the stage that failed, having started no later stage; the success
\* line is printed, and the status is 0, only after all five stages and with
\* dist/cipher or dist/index.js present.
C12_StagesInOrderStopAtFirstFailure ==
  /\ Len(ops) <= Len(StageOrder)
  /\ \A k \in 1..Len(ops) : ops[k] = StageOrder[k]
  /\ pc = "done" =>
       /\ exitCode \in { 0, 1 }
       /\ exitCode = 1 => FailedStage(out[Len(out)]) = Len(ops)
       /\ exitCode = 0 => Printed(Succeeded)
  /\ pc # "done" => \A k \in 1..Len(out) : FailedStage(out[k]) = 0
  /\ Printed(Succeeded) =>
       /\ pc = "done" /\ exitCode = 0
       /\ ops = StageOrder
       /\ fsys.dist \in { "cipher", "index.js" }

\* the build step failed: three stages started, status 1
C12_Witness ==
  /\ script = "build" /\ pc = "done" /\ exitCode = 1
  /\ ops = SubSeq(StageOrder, 1, 3)
  /\ Printed("ERROR: Failed to build application")

\* ------------------------------------------------------ docker-bake.hcl
Targets == { "cipher-base", "cipher-dev", "cipher-prod", "cipher-release" }

Groups == { "default", "development", "production", "release", "all" }

GroupTargets(g) ==
  CASE g \in { "default", "development" } -> { "cipher-dev" }
    [] g = "production" -> { "cipher-prod" }
    [] g = "release" -> { "cipher-release" }
    [] g = "all" -> { "cipher-dev", "cipher-prod", "cipher-release" }
    [] OTHER -> { g }

\* inherits = [...]
Inherits(t) ==
  CASE t \in { "cipher-dev", "cipher-prod" } -> "cipher-base"
    [] t = "cipher-release" -> "cipher-prod"
    [] OTHER -> ""

\* an attribute a target does not set
Type(ty) == [ type |-> ty, ref |-> "" ]

Unset == << Type("unset") >>

ConditionalOutput ==
  << IF PUSH_TO_REGISTRY = "true" THEN Type("registry")
                                  ELSE Type(OUTPUT_TYPE) >>

\* the output attribute as a target writes it
OwnOutput(t) ==
  CASE t = "cipher-base" -> << Type("docker") >>
    [] t \in { "cipher-dev", "cipher-prod" } -> ConditionalOutput
    [] OTHER -> Unset

\* the cache-to attribute as a target writes it
OwnCacheTo(t) ==
  IF t = "cipher-release"
    THEN << [ type |-> "gha", ref |-> "scope=cipher-release" ],
            [ type |-> "registry", ref |-> "cache-release" ] >>
    ELSE Unset

RECURSIVE Output(_)
\* a target that pushes whatever PUSH_TO_REGISTRY says
Output_alwaysRegistry(t) == << Type("registry") >>

\* the attribute of the target itself, else of the target it inherits from
Output(t) ==
  IF OwnOutput(t) # Unset THEN OwnOutput(t)
  ELSE IF Inherits(t) = "" THEN << >>
  ELSE Output(Inherits(t))

RECURSIVE CacheTo(_)
CacheTo(t) ==
  IF OwnCacheTo(t) # Unset THEN OwnCacheTo(t)
  ELSE IF Inherits(t) = "" THEN << >>
  ELSE CacheTo(Inherits(t))

\* what building t sends to the registry: the image of an output of
\* type=registry, the cache of a cache-to of type=registry
RegistryWrites(t) ==
  { [ target |-> t, what |-> "image", ref |-> "" ] :
      k \in { j \in 1..Len(Output(t)) : Output(t)[j].type = "registry" } }
  \cup
  { [ target |-> t, what |-> "cache", ref |-> CacheTo(t)[k].ref ] :
      k \in { j \in 1..Len(CacheTo(t)) : CacheTo(t)[j].type = "registry" } }

\* docker buildx bake builds one of the targets asked for
Bake ==
  /\ \E t \in requested \ built :
       /\ built' = built \cup { t }
       /\ registry' = registry \cup RegistryWrites(t)
  /\ UNCHANGED << PUSH_TO_REGISTRY, OUTPUT_TYPE, requested, scripts, notBake >>

OutputTypes == { "docker", "registry", "image", "local", "oci" }

InitBake ==
  /\ ScriptsIdle
  /\ IdleButBake
  /\ PUSH_TO_REGISTRY \in { "false", "true", "TRUE", "1", "" }
  /\ OUTPUT_TYPE \in OutputTypes
  /\ \E g \in Groups \cup Targets : requested = GroupTargets(g)
  /\ built = {}
  /\ registry = {}

NextBake == Bake

SpecBake == InitBake /\ [][NextBake]_vars

Buildable == { "cipher-dev", "cipher-prod", "cipher-release" }

\* C13 as stated: with PUSH_TO_REGISTRY = "false" no build of cipher-dev,
\* cipher-prod or cipher-release writes to the registry, and the output of
\* such a target is type=registry exactly when PUSH_TO_REGISTRY = "true" and
\* type=OUTPUT_TYPE otherwise.
C13_NothingToRegistryUnlessPush ==
  /\ PUSH_TO_REGISTRY = "false" =>
       \A w \in registry : w.target \notin Buildable
  /\ \A t \in built \cap Buildable :
       /\ Output(t) = << Type("registry") >> <=> PUSH_TO_REGISTRY = "true"
       /\ PUSH_TO_REGISTRY # "true" => Output(t) = << Type(OUTPUT_TYPE) >>

\* C13 amended: the output of cipher-dev, cipher-prod and cipher-release is
\* type=registry when PUSH_TO_REGISTRY = "true" and type=OUTPUT_TYPE
\* otherwise; with PUSH_TO_REGISTRY and OUTPUT_TYPE at their defaults no
\* image goes to the registry; the one other registry write is the build
\* cache of cipher-release, exported whatever PUSH_TO_REGISTRY is.
C13_ImageToRegistryOnlyOnRequest ==
  /\ \A t \in built \cap Buildable :
       Output(t) = << IF PUSH_TO_REGISTRY = "true" THEN Type("registry")
                                                   ELSE Type(OUTPUT_TYPE) >>
  /\ \A w \in registry :
       /\ w.what = "image" =>
            PUSH_TO_REGISTRY = "true" \/ OUTPUT_TYPE = "registry"
       /\ w.what = "cache" => w.target = "cipher-release"
  /\ "cipher-release" \in built =>
       [ target |-> "cipher-release", what |-> "cache",
         ref |-> "cache-release" ] \in registry

\* cipher-release built with both variables at their defaults
C13_Witness ==
  /\ PUSH_TO_REGISTRY = "false" /\ OUTPUT_TYPE = "docker"
  /\ "cipher-release" \in built
  /\ registry # {}

\* ------------------------------------------- DatabaseHistoryProvider
\* most calls of the provider and writes to the backend in one behaviour
MaxCalls == 3

\* messages kept per session
MaxHistory == 1000

\* Array(1005).fill(message), written to the backend directly
Many == 1005

Messages == { 1, 2 }

Fill(n, m) == [ k \in 1..n |-> m ]

\* history.slice(-n)
Last(n, h) == IF Len(h) > n THEN SubSeq(h, Len(h) - n + 1, Len(h)) ELSE h

Called(op, s, failed, outcome) ==
  /\ lastCall' = [ op |-> op, session |-> s, failed |-> failed,
                   outcome |-> outcome ]
  /\ calls' = calls + 1

\* backend.set(`messages:${sessionId}`, many), not through the provider
HP_BackendSet ==
  /\ calls < MaxCalls
  /\ \E s \in Sessions : \E m \in Messages :
       /\ store' = [ store EXCEPT ![s] = Fill(Many, m) ]
       /\ overwritten' = [ overwritten EXCEPT ![s] = TRUE ]
       /\ Called("backend.set", s, FALSE, "resolved")
  /\ UNCHANGED << saved, faulted, history, scripts, notHistory >>

\* saveMessage that puts the new message first
Stored_newestFirst(h, m) == Last(MaxHistory, << m >> \o h)

\* saveMessage that writes back the whole list
Stored_unlimited(h, m) == Append(h, m)

\* what saveMessage leaves in the backend when its read and write succeed
Stored(h, m) == Last(MaxHistory, Append(h, m))

RECURSIVE StoredAll(_, _, _)
\* n successive saveMessage(sessionId, m), split in halves; Len(h) is taken
\* first so that h is evaluated before the next call
StoredAll(h, m, n) ==
  IF Len(h) >= 0 /\ n = 0 THEN h
  ELSE IF n = 1 THEN Stored(h, m)
  ELSE StoredAll(StoredAll(h, m, n \div 2), m, n - (n \div 2))

\* saveMessage(sessionId, message): a failure of the backend is logged
HP_SaveMessage ==
  /\ calls < MaxCalls
  /\ \E s \in Sessions : \E m \in Messages : \E failed \in BOOLEAN :
       /\ store' = IF failed THEN store
                   ELSE [ store EXCEPT ![s] = Stored(store[s], m) ]
       /\ saved' = [ saved EXCEPT ![s] = Append(saved[s], m) ]
       /\ faulted' = [ faulted EXCEPT ![s] = faulted[s] \/ failed ]
       /\ Called("saveMessage", s, failed, "resolved")
  /\ UNCHANGED << overwritten, history, scripts, notHistory >>

\* MaxHistory calls of saveMessage(sessionId, m) in a row, none failing
HP_SaveMany ==
  /\ calls < MaxCalls
  /\ \E s \in Sessions : \E m \in Messages :
       /\ store' = [ store EXCEPT ![s] = StoredAll(store[s], m, MaxHistory) ]
       /\ saved' = [ saved EXCEPT ![s] = saved[s] \o Fill(MaxHistory, m) ]
       /\ Called("saveMessage", s, FALSE, "resolved")
  /\ UNCHANGED << faulted, overwritten, history, scripts, notHistory >>

\* clearHistory(sessionId): a failure of backend.delete is logged
HP_ClearHistory ==
  /\ calls < MaxCalls
  /\ \E s \in Sessions : \E failed \in BOOLEAN :
       /\ store' = IF failed THEN store ELSE [ store EXCEPT ![s] = << >> ]
       /\ saved' = [ saved EXCEPT ![s] = << >> ]
       /\ faulted' = [ faulted EXCEPT ![s] = failed ]
       /\ overwritten' = [ overwritten EXCEPT ![s] = failed /\ overwritten[s] ]
       /\ Called("clearHistory", s, failed, "resolved")
  /\ UNCHANGED << history, scripts, notHistory >>

\* what getHistory(sessionId) resolves to
getHistory(s, failed) == IF failed THEN << >> ELSE store[s]

\* getHistory that lets the failure of backend.get through
Outcome_rejecting(failed) == IF failed THEN "rejected" ELSE "resolved"

Outcome(failed) == "resolved"

HP_GetHistory ==
  /\ calls < MaxCalls
  /\ \E s \in Sessions : \E failed \in BOOLEAN :
       /\ history' = getHistory(s, failed)
       /\ Called("getHistory", s, failed, Outcome(failed))
  /\ UNCHANGED << store, saved, faulted, overwritten, scripts, notHistory >>

InitHistory ==
  /\ ScriptsIdle
  /\ IdleButHistory
  /\ HistoryIdle

NextHistory ==
  \/ HP_BackendSet \/ HP_SaveMessage \/ HP_SaveMany \/ HP_ClearHistory
  \/ HP_GetHistory

SpecHistory == InitHistory /\ [][NextHistory]_vars

AfterSave == lastCall.op = "saveMessage"

AfterGet == lastCall.op = "getHistory"

StrategyNames == { "middle-removal", "oldest-removal", "hybrid" }

\* thresholds are written in tenths: 8 for 0.8, 20 for 2.0
CompressionConfigs ==
  [ strategy : StrategyNames \cup { "invalid-strategy" },
    maxTokens : { 4096, -100 },
    warningThreshold : { 8, 20 } ]

\* CompressionConfigSchema.parse(config) does not throw
SchemaAccepts(c) ==
  /\ c.strategy \in StrategyNames
  /\ c.maxTokens > 0
  /\ c.warningThreshold >= 0 /\ c.warningThreshold <= 10

StrategyClass(name) ==
  CASE name = "middle-removal" -> "MiddleRemovalStrategy"
    [] name = "oldest-removal" -> "OldestRemovalStrategy"
    [] name = "hybrid" -> "HybridStrategy"

Strategy(name) ==
  [ kind |-> "strategy", class |-> StrategyClass(name), name |-> name ]

Rejected == [ kind |-> "threw", class |-> "", name |-> "" ]

\* a lookup that takes any class loaded so far
Cached_any(name) ==
  IF loaded = {} THEN StrategyClass(name)
  ELSE StrategyClass(CHOOSE n \in loaded : TRUE)

\* the class of a strategy, from the classes loaded so far or by loading it
Cached(name) == StrategyClass(name)

\* createCompressionStrategy(config): async, loads each class once
createCompressionStrategy ==
  /\ compression # NoCompression
  /\ asyncStrategy = Pending
  /\ IF SchemaAccepts(compression)
       THEN /\ asyncStrategy' =
                 [ kind |-> "strategy", class |-> Cached(compression.strategy),
                   name |-> compression.strategy ]
            /\ loaded' = loaded \cup { compression.strategy }
       ELSE /\ asyncStrategy' = Rejected
            /\ UNCHANGED loaded
  /\ UNCHANGED << compression, syncStrategy, scripts, notCompression >>

\* createCompressionStrategySync(config)
createCompressionStrategySync ==
  /\ compression # NoCompression
  /\ syncStrategy = Pending
  /\ syncStrategy' = IF SchemaAccepts(compression)
                       THEN Strategy(compression.strategy)
                       ELSE Rejected
  /\ UNCHANGED << compression, asyncStrategy, loaded, scripts,
                  notCompression >>

\* the next configuration is handed to both functions
CS_Configure ==
  /\ asyncStrategy # Pending /\ syncStrategy # Pending
  /\ compression' \in CompressionConfigs
  /\ asyncStrategy' = Pending
  /\ syncStrategy' = Pending
  /\ UNCHANGED << loaded, scripts, notCompression >>

InitCompression ==
  /\ ScriptsIdle
  /\ IdleButCompression
  /\ CompressionIdle

NextCompression ==
  \/ CS_Configure \/ createCompressionStrategy \/ createCompressionStrategySync

SpecCompression == InitCompression /\ [][NextCompression]_vars

BothDone ==
  /\ asyncStrategy.kind \in { "strategy", "threw" }
  /\ syncStrategy.kind \in { "strategy", "threw" }

MAX_ATTEMPTS == 3

\* a tool call of a model message: arguments is "json" when
\* toolCall.function.arguments parses, "garbage" when JSON.parse throws
ToolCall(round, k, arguments) ==
  [ id |-> [ round |-> round, k |-> k ], name |-> "t1",
    arguments |-> arguments ]

\* what one attempt can meet: getFormattedMessage throws ("format"),
\* chat.completions.create throws ("api"), the response has no
\* choices[0].message ("empty"), or it has one
Failures == { "format", "api", "empty" }

NoMessage == [ content |-> "", tool_calls |-> << >> ]

Fails(kind) == [ kind |-> kind, message |-> NoMessage ]

Yields(message) == [ kind |-> "message", message |-> message ]

NoError == [ attempt |-> 0, kind |-> "" ]

\* retries that offer the tools again
Request_toolsAgain(offered, attempts) ==
  [ tools |-> offered, tool_choice |-> "auto" ]

\* the request of attempt number attempts
Request(offered, attempts) ==
  [ tools |-> IF attempts = 1 THEN offered ELSE << >>,
    tool_choice |-> IF attempts = 1 THEN "auto" ELSE "none" ]

RECURSIVE Attempt(_, _, _, _, _)
\* the while loop from the attempt after attempts on; sent are the requests
\* made so far, waits the delays slept so far
Attempt(offered, outcomes, attempts, sent, waits) ==
  IF attempts >= MAX_ATTEMPTS
    THEN [ kind |-> "threw", message |-> NoMessage,
           error |-> [ attempt |-> 0, kind |-> "maximum retry attempts" ],
           attempts |-> attempts, sent |-> sent, waits |-> waits ]
    ELSE
      LET a == attempts + 1
          met == outcomes[a]
          sentNow == IF met.kind = "format" THEN sent
                     ELSE Append(sent, Request(offered, a))
      IN IF met.kind = "message"
           THEN [ kind |-> "returned", message |-> met.message,
                  error |-> NoError, attempts |-> a, sent |-> sentNow,
                  waits |-> waits ]
           ELSE IF a >= MAX_ATTEMPTS
                  THEN [ kind |-> "threw", message |-> NoMessage,
                         error |-> [ attempt |-> a, kind |-> met.kind ],
                         attempts |-> a, sent |-> sentNow, waits |-> waits ]
                  ELSE Attempt(offered, outcomes, a, sentNow,
                               Append(waits, 500 * a))

getAIResponseWithRetries(offered, outcomes) ==
  Attempt(offered, outcomes, 0, << >>, << >>)

\* messages a response may carry
ModelMessages ==
  { [ content |-> "reply", tool_calls |-> << >> ],
    [ content |-> "", tool_calls |-> << >> ],
    [ content |-> "thinking", tool_calls |-> << ToolCall(1, 1, "json") >> ] }

Outcomes == { Fails(f) : f \in Failures } \cup { Yields(m) : m \in ModelMessages }

RT_Call ==
  /\ retried = Pending
  /\ retried' = getAIResponseWithRetries(tools, plan)
  /\ UNCHANGED << tools, plan, scripts, notRetry >>

InitRetry ==
  /\ ScriptsIdle
  /\ IdleButRetry
  /\ tools \in { << >>, << "t1" >>, << "t1", "t2" >> }
  /\ plan \in [ 1..MAX_ATTEMPTS -> Outcomes ]
  /\ retried = Pending

NextRetry == RT_Call

SpecRetry == InitRetry /\ [][NextRetry]_vars

Retried == retried.kind \in { "returned", "threw" }

\* the first attempt that yields a message, 0 if none does
FirstYield ==
  IF \E a \in 1..MAX_ATTEMPTS : plan[a].kind = "message"
    THEN CHOOSE a \in 1..MAX_ATTEMPTS :
           /\ plan[a].kind = "message"
           /\ \A b \in 1..(a - 1) : plan[b].kind # "message"
    ELSE 0

\* C20: one call of getAIResponseWithRetries makes at most 3 chat-completion
\* requests; a request carries the tools and tool_choice auto only when it is
\* made by the first attempt, every later one carries no tools and
\* tool_choice none; the call returns the message of the first attempt that
\* yields one, and throws the error of the third attempt when all three fail.
C20_ThreeAttemptsToolsOnlyOnFirst ==
  Retried =>
    /\ Len(retried.sent) <= 3
    /\ retried.attempts <= 3
    /\ \A k \in 1..Len(retried.sent) :
         IF k = 1 /\ plan[1].kind # "format"
           THEN retried.sent[k] = [ tools |-> tools, tool_choice |-> "auto" ]
           ELSE retried.sent[k] = [ tools |-> << >>, tool_choice |-> "none" ]
    /\ FirstYield # 0 =>
         /\ retried.kind = "returned"
         /\ retried.attempts = FirstYield
         /\ retried.message = plan[FirstYield].message
    /\ FirstYield = 0 =>
         /\ retried.kind = "threw"
         /\ retried.error = [ attempt |-> 3, kind |-> plan[3].kind ]

\* two attempts failed at the API, the third returned a message
C20_Witness ==
  /\ Retried /\ retried.kind = "returned" /\ retried.attempts = 3
  /\ Len(retried.sent) = 3
  /\ tools # << >>

\* ------------------------------------------- DeepseekService.generate
\* largest maxIterations handed to the constructor
MaxIterationArg == 2
\* most tool toolCalls the model asks for during one generate
MaxToolCalls == 5
\* most tool toolCalls of one generate that fail (arguments or execution)
MaxToolFaults == 1
\* most attempts of one generate that fail
MaxApiFailures == 3

\* maxIterations: number = 5
DefaultMaxIterations == 5

NoId == [ round |-> 0, k |-> 0 ]

\* messages of the context manager
UserMessage ==
  [ role |-> "user", content |-> "input", tool_calls |-> << >>,
    tool_call_id |-> NoId, name |-> "", error |-> NoError ]

AssistantMessage(content, tool_calls) ==
  [ role |-> "assistant", content |-> content, tool_calls |-> tool_calls,
    tool_call_id |-> NoId, name |-> "", error |-> NoError ]

\* addToolResult(toolCall.id, toolName, result): content is "result" for
\* the tool's result and "error" for { error: ... }
ToolResult(call, content) ==
  [ role |-> "tool", content |-> content, tool_calls |-> << >>,
    tool_call_id |-> call.id, name |-> call.name, error |-> NoError ]

LimitNotice == "Task completed but reached maximum tool call iterations."

\* `Error processing request: ${errorMessage}`
ErrorMessage(e) ==
  [ role |-> "assistant", content |-> "Error processing request",
    tool_calls |-> << >>, tool_call_id |-> NoId, name |-> "", error |-> e ]

Returned(message) == [ kind |-> "returned", message |-> message ]

ToolMessages == { k \in 1..Len(context) : context[k].role = "tool" }

ToolFaults == { k \in ToolMessages : context[k].content = "error" }

\* the for loop over message.tool_calls without the addToolResult of the
\* branch in which JSON.parse throws
ResultOf_parseErrorDropped(call, runs) ==
  IF call.arguments = "garbage" THEN << >>
  ELSE IF runs = "throws" THEN << ToolResult(call, "error") >>
  ELSE << ToolResult(call, "result") >>

\* one pass of the for loop: the tool message it adds
ResultOf(call, runs) ==
  IF call.arguments = "garbage" THEN << ToolResult(call, "error") >>
  ELSE IF runs = "throws" THEN << ToolResult(call, "error") >>
  ELSE << ToolResult(call, "result") >>

RECURSIVE ToolResults(_, _, _)
\* the tool messages of the toolCalls from number k on
ToolResults(toolCalls, runs, k) ==
  IF k > Len(toolCalls) THEN << >>
  ELSE ResultOf(toolCalls[k], runs[k]) \o ToolResults(toolCalls, runs, k + 1)

\* the ids of the toolCalls that reach executeTool
Executed(toolCalls) ==
  LET ran == { k \in 1..Len(toolCalls) : toolCalls[k].arguments = "json" }
      RECURSIVE From(_)
      From(k) == IF k > Len(toolCalls) THEN << >>
                 ELSE (IF k \in ran THEN << toolCalls[k].id >> ELSE << >>)
                        \o From(k + 1)
  IN From(1)

\* const messageId = uuidv4(): one id for the whole call
MessageId == "m1"

\* if (this.eventManager && sessionId) emitSessionEvent(sessionId, type,
\* { sessionId, messageId, ... }): the events the call adds
Emit(type) ==
  IF eventManager /\ ctxSessionId # ""
    THEN << [ type |-> type, sessionId |-> ctxSessionId,
              messageId |-> MessageId ] >>
    ELSE << >>

\* addUserMessage, LLM_RESPONSE_STARTED, then the tools are listed (outside
\* the try)
DS_Start ==
  /\ dsPc = "start"
  /\ context' = Append(context, UserMessage)
  /\ events' = events \o Emit("LLM_RESPONSE_STARTED")
  /\ \E listed \in BOOLEAN :
       IF listed
         THEN /\ formattedTools' \in { << >>, << "t1" >> }
              /\ dsPc' = "loop"
              /\ UNCHANGED generated
         ELSE /\ dsPc' = "done"
              /\ generated' = [ kind |-> "rejected", message |-> UserMessage ]
              /\ UNCHANGED formattedTools
  /\ UNCHANGED << maxIterations, iterationCount, apiCalls, apiFailures,
                  executed, eventManager, ctxSessionId, scripts,
                  notGenerate >>

\* the context manager does not fail: an attempt of generate fails at the
\* API or on an empty response
ApiFailures == { "api", "empty" }

Min(a, b) == IF a < b THEN a ELSE b

\* how n tool calls go when at most b of them fail: "garbage" arguments,
\* an execution that "throws", or "ok"
Runs(n, b) ==
  UNION { { [ k \in 1..n |-> IF k \in S THEN fault[k] ELSE "ok" ] :
              fault \in [ S -> { "garbage", "throws" } ] } :
          S \in { T \in SUBSET (1..n) : Cardinality(T) <= b } }

\* the tool calls of a message of round r that go as runs says
Asked(r, runs) ==
  [ k \in 1..Len(runs) |->
      ToolCall(r, k, IF runs[k] = "garbage" THEN "garbage" ELSE "json") ]

\* the round's attempts fail failed times, then the model answers message
Answered(failed, message) ==
  /\ LET r == getAIResponseWithRetries(formattedTools,
                                       failed \o << Yields(message) >>)
     IN /\ r.kind = "returned" /\ r.message = message
        /\ apiCalls' = apiCalls + Len(r.sent)
  /\ apiFailures' = apiFailures + Len(failed)

\* a loop test that lets one more iteration in
WithinIterations_inclusive == iterationCount <= maxIterations

\* while (iterationCount < this.maxIterations)
WithinIterations == iterationCount < maxIterations

\* one iteration of the while loop
DS_Round ==
  /\ dsPc = "loop"
  /\ WithinIterations
  /\ iterationCount' = iterationCount + 1
  /\ \E n \in 0..Min(MAX_ATTEMPTS, MaxApiFailures - apiFailures) :
     \E failed \in [ 1..n -> { Fails(f) : f \in ApiFailures } ] :
       IF n = MAX_ATTEMPTS
         THEN LET r == getAIResponseWithRetries(formattedTools, failed) IN
                /\ r.kind = "threw"
                /\ apiCalls' = apiCalls + Len(r.sent)
                /\ apiFailures' = apiFailures + n
                /\ context' = Append(context, ErrorMessage(r.error))
                /\ generated' = Returned(ErrorMessage(r.error))
                /\ dsPc' = "done"
                /\ UNCHANGED << executed, events >>
         ELSE
           \/ /\ Answered(failed, [ content |-> "reply", tool_calls |-> << >> ])
              /\ context' = Append(context, AssistantMessage("reply", << >>))
              /\ generated' = Returned(AssistantMessage("reply", << >>))
              /\ events' = events \o Emit("LLM_RESPONSE_COMPLETED")
              /\ dsPc' = "done"
              /\ UNCHANGED executed
           \/ \E m \in 1..(MaxToolCalls - Cardinality(ToolMessages)) :
              \E runs \in Runs(m, MaxToolFaults - Cardinality(ToolFaults)) :
                LET asked == Asked(iterationCount', runs) IN
                  /\ Answered(failed, [ content |-> "thinking",
                                        tool_calls |-> asked ])
                  /\ context' =
                       context \o << AssistantMessage("thinking", asked) >>
                               \o ToolResults(asked, runs, 1)
                  /\ executed' = executed \o Executed(asked)
                  /\ events' = events \o Emit("LLM_THINKING")
                  /\ UNCHANGED << dsPc, generated >>
  /\ UNCHANGED << maxIterations, formattedTools, eventManager, ctxSessionId,
                  scripts, notGenerate >>

\* the end of the while loop returning the notice without adding it to the
\* context
DS_Limit_unrecorded ==
  /\ dsPc = "loop"
  /\ ~WithinIterations
  /\ generated' = Returned(AssistantMessage(LimitNotice, << >>))
  /\ dsPc' = "done"
  /\ UNCHANGED << maxIterations, iterationCount, formattedTools, context,
                  apiCalls, apiFailures, executed, eventManager,
                  ctxSessionId, events, scripts, notGenerate >>

\* the while loop ended with iterationCount = maxIterations
DS_Limit ==
  /\ dsPc = "loop"
  /\ ~WithinIterations
  /\ context' = Append(context, AssistantMessage(LimitNotice, << >>))
  /\ generated' = Returned(AssistantMessage(LimitNotice, << >>))
  /\ dsPc' = "done"
  /\ UNCHANGED << maxIterations, iterationCount, formattedTools, apiCalls,
                  apiFailures, executed, eventManager, ctxSessionId, events,
                  scripts, notGenerate >>

InitGenerate ==
  /\ ScriptsIdle
  /\ IdleButGenerate
  /\ maxIterations \in (0..MaxIterationArg) \cup { DefaultMaxIterations }
  /\ dsPc = "start"
  /\ iterationCount = 0
  /\ formattedTools = << >>
  /\ context = << >>
  /\ apiCalls = 0
  /\ apiFailures = 0
  /\ executed = << >>
  /\ generated = Pending
  /\ eventManager \in BOOLEAN
  /\ ctxSessionId \in { "", "s1" }
  /\ events = << >>

NextGenerate == DS_Start \/ DS_Round \/ DS_Limit

SpecGenerate == InitGenerate /\ [][NextGenerate]_vars

\* the assistant messages with tool calls, one per tool round
ToolRounds ==
  { i \in 1..Len(context) :
      context[i].role = "assistant" /\ context[i].tool_calls # << >> }

\* C18: every assistant message with tool calls in the context is followed,
\* before anything else is added, by exactly one tool result per tool call,
\* in the order of the calls and with the call's id; a call whose arguments
\* do not parse gets an error result and is not executed; no tool result
\* stands anywhere else.
C18_OneToolResultPerToolCall ==
  /\ \A i \in ToolRounds :
       LET asked == context[i].tool_calls IN
         /\ i + Len(asked) <= Len(context)
         /\ \A k \in 1..Len(asked) :
              /\ context[i + k].role = "tool"
              /\ context[i + k].tool_call_id = asked[k].id
              /\ asked[k].arguments = "garbage" =>
                   /\ context[i + k].content = "error"
                   /\ \A e \in 1..Len(executed) : executed[e] # asked[k].id
              /\ asked[k].arguments = "json" =>
                   \E e \in 1..Len(executed) : executed[e] = asked[k].id
         /\ i + Len(asked) < Len(context) =>
              context[i + Len(asked) + 1].role # "tool"
  /\ \A j \in ToolMessages :
       \E i \in ToolRounds : i < j /\ j <= i + Len(context[i].tool_calls)

\* a round of two calls, one of which failed, was followed by another round
C18_Witness ==
  \E i \in ToolRounds :
    /\ Len(context[i].tool_calls) = 2
    /\ \E k \in 1..2 : context[i + k].content = "error"
    /\ \E j \in ToolRounds : j > i

\* C19: generate runs at most maxIterations rounds (5 unless the constructor
\* was told otherwise) and makes at most 3 chat-completion calls per round;
\* it returns the model's reply in the first round whose message has no tool
\* calls; when every round had tool calls it stops after maxIterations
\* rounds and returns the iteration-limit notice.
C19_AtMostMaxIterationsRounds ==
  /\ iterationCount <= maxIterations
  /\ Cardinality(ToolRounds) <= iterationCount
  /\ apiCalls <= 3 * iterationCount
  /\ apiCalls <= 3 * maxIterations
  /\ (generated.kind = "returned" /\ generated.message.content = "reply") =>
       Cardinality(ToolRounds) = iterationCount - 1
  /\ (dsPc = "done" /\ generated.kind = "returned"
        /\ Cardinality(ToolRounds) = iterationCount) =>
       /\ iterationCount = maxIterations
       /\ generated.message.content = LimitNotice
  /\ (generated.kind = "returned"
        /\ generated.message.content = LimitNotice) =>
       /\ iterationCount = maxIterations
       /\ Cardinality(ToolRounds) = maxIterations

\* the default five rounds all had tool calls
C19_Witness ==
  /\ maxIterations = DefaultMaxIterations
  /\ generated.kind = "returned"
  /\ generated.message.content = LimitNotice
  /\ Cardinality(ToolRounds) = 5

\* ---------------------------------------- generate: failures and messages
\* C21: once the user message is in the context, generate never rejects: a
\* call that has ended has returned, and a failure of the model API or of the
\* tool listing ended it with the assistant message 'Error processing
\* request: <message>' added last and returned; a failed tool call left an
\* { error } tool result and did not end the call.
C21_FailuresNeverReject ==
  /\ (Len(context) >= 1 /\ dsPc = "done") =>
       /\ generated.kind = "returned"
       /\ context[Len(context)] = generated.message
  /\ \A k \in ToolFaults :
       /\ generated.kind # "rejected"
       /\ k < Len(context) => context[k + 1].role \in { "tool", "assistant" }

\* C22: when generate has returned, the context holds exactly one user
\* message, as its first message; then, for each tool round, one assistant
\* message with tool calls followed by one tool result per call and nothing
\* else; and last exactly one assistant message without tool calls, which is
\* the returned string (the model's reply, the iteration-limit notice or
\* the error text).
C22_UserThenRoundsThenAnswer ==
  generated.kind = "returned" =>
    LET n == Len(context) IN
      /\ n >= 2
      /\ context[1] = UserMessage
      /\ \A i \in 2..n : context[i].role # "user"
      /\ context[n].role = "assistant"
      /\ context[n].tool_calls = << >>
      /\ context[n] = generated.message
      /\ context[n].content \in { "reply", LimitNotice,
                                  "Error processing request" }
      /\ \A i \in 2..(n - 1) :
           \/ i \in ToolRounds
           \/ /\ context[i].role = "tool"
              /\ \E r \in ToolRounds :
                   r < i /\ i <= r + Len(context[r].tool_calls)
      /\ \A r \in ToolRounds :
           /\ r + Len(context[r].tool_calls) < n
           /\ \A k \in 1..Len(context[r].tool_calls) :
                context[r + k].role = "tool"
           /\ context[r + Len(context[r].tool_calls) + 1].role = "assistant"

\* two tool rounds were followed by the error text
C22_Witness ==
  /\ generated.kind = "returned"
  /\ generated.message.error # NoError
  /\ Cardinality(ToolRounds) = 2
  /\ Len(context) >= 6

\* ------------------------------------------------ generate: session events
\* the events of one type emitted so far
Emitted(type) == { i \in 1..Len(events) : events[i].type = type }

YesWords ==
  { "y", "Y", "yes", "yeS", "yEs", "yES", "Yes", "YeS", "YEs", "YES" }

\* C24: sync-upstream.sh runs git rebase upstream/main only if it counted at
\* least one upstream commit not in HEAD, the merge-tree preview showed no
\* conflict marker, and the answer read was y or yes (in any letter case).
\* A run that found the fork current ends with status 0 without rebasing; a
\* run whose preview showed a conflict marker ends with status 1 without
\* rebasing; a run in which another answer was read ends with status 0
\* without rebasing.
C24_RebaseOnlyWhenAheadCleanAndAgreed ==
  script = "sync" =>
    /\ Ran(RebaseCmd) =>
         /\ upstream_commits >= 1
         /\ preview = "clean"
         /\ confirm \in YesWords
    /\ (pc = "done" /\ Printed("Fork is current with upstream")) =>
         /\ upstream_commits = 0 /\ ~Ran(RebaseCmd) /\ exitCode = 0
    /\ preview # "unrun" => upstream_commits >= 1
    /\ preview = "conflicts" =>
         /\ pc = "done" /\ ~Ran(RebaseCmd) /\ exitCode = 1
    /\ (confirm \in Answers /\ confirm \notin YesWords) =>
         /\ pc = "done" /\ ~Ran(RebaseCmd) /\ exitCode = 0
    /\ confirm # "unread" => preview = "clean"

\* upstream was ahead, the preview was clean, the answer was yEs, and the
\* rebase ran to the end
C24_Witness ==
  /\ script = "sync" /\ pc = "done" /\ exitCode = 0
  /\ upstream_commits >= 1 /\ preview = "clean" /\ confirm = "yEs"
  /\ Ran(RebaseCmd)
  /\ Printed("Upstream sync complete!")

\* ------------------------------------------------ restoring from the backup
\* git reset --hard backup/before-rebase-$(date +%Y%m%d), run on the day of
\* the rebase: the commit it resets to, or "fatal" when no branch has that
\* name
GitResetHardBackup ==
  IF BackupDateOnly \in DOMAIN branches
    THEN branches[BackupDateOnly]
    ELSE "fatal"

\* C25: the backup branch that rebase-from-upstream.sh creates carries the
\* name check-rebase-readiness.sh checked for and announced and the
\* documented restore command uses, backup/before-rebase-<date>, so that the
\* restore command run after the automated rebase resets to the pre-rebase
\* commit.
C25_RestoreFindsCreatedBackup ==
  (script = "rebase" /\ Printed("Backup created")) =>
    /\ backup_branch = BackupDateOnly
    /\ GitResetHardBackup = C_fork

\* ------------------------------------------------- docker-buildx-use.sh
\* most runs of the script, one after the other
MaxBuildxRuns == 2

\* ${VAR:-"default"}: the default when VAR is unset or empty
OrDefault(value, default) == IF value = "" THEN default ELSE value

\* check_builder: docker buildx inspect "${DOCKER_BUILDER}" succeeded
check_builder(inspected) == inspected

\* the driver create_builder asks for
Driver ==
  IF DOCKER_CLOUD_ENDPOINT # "" /\ DOCKER_CLOUD_ENDPOINT # "default"
    THEN "cloud"
    ELSE "docker-container"

\* lines 7-8, then main up to its if: inspect fails for a builder that
\* does not exist, and may fail for one that does
BX_Check ==
  /\ script = "buildx" /\ pc = "bx_check"
  /\ DOCKER_BUILDER' = OrDefault(env.DOCKER_BUILDER, "cipher-builder")
  /\ DOCKER_CLOUD_ENDPOINT' = OrDefault(env.DOCKER_CLOUD_ENDPOINT, "")
  /\ Do("docker buildx inspect")
  /\ \E inspected \in { DOCKER_BUILDER' \in DOMAIN builders, FALSE } :
       IF check_builder(inspected)
         THEN Say("Builder already exists") /\ pc' = "bx_use"
         ELSE Say("Builder does not exist, creating...") /\ pc' = "bx_create"
  /\ UNCHANGED << script, exitCode, env, builders, selected, bxStart, bxRuns,
                  repo, notBuildx >>

\* create_builder under set -e: docker buildx create fails when the name
\* is taken, and may fail otherwise; only the container builder is created
\* with --use
BX_Create ==
  /\ script = "buildx" /\ pc = "bx_create"
  /\ Do("docker buildx create")
  /\ \E made \in { DOCKER_BUILDER \notin DOMAIN builders, FALSE } :
       IF made
         THEN /\ builders' =
                   [ n \in DOMAIN builders \cup { DOCKER_BUILDER } |->
                       IF n = DOCKER_BUILDER THEN Driver ELSE builders[n] ]
              /\ selected' = IF Driver = "cloud" THEN selected
                             ELSE DOCKER_BUILDER
              /\ pc' = "bx_use"
              /\ UNCHANGED exitCode
         ELSE /\ Exit(1)
              /\ UNCHANGED << builders, selected >>
  /\ UNCHANGED << script, out, env, DOCKER_BUILDER, DOCKER_CLOUD_ENDPOINT,
                  bxStart, bxRuns, repo, notBuildx >>

\* a main that goes on without docker buildx use
BX_Use_skipped ==
  /\ script = "buildx" /\ pc = "bx_use"
  /\ Say("Switched to builder")
  /\ pc' = "bx_info"
  /\ UNCHANGED << script, exitCode, ops, bx, repo, notBuildx >>

\* docker buildx use "${DOCKER_BUILDER}" under set -e (both branches)
BX_Use ==
  /\ script = "buildx" /\ pc = "bx_use"
  /\ Do("docker buildx use")
  /\ \E used \in { DOCKER_BUILDER \in DOMAIN builders, FALSE } :
       IF used
         THEN /\ selected' = DOCKER_BUILDER
              /\ Say("Switched to builder")
              /\ pc' = "bx_info"
              /\ UNCHANGED exitCode
         ELSE /\ Exit(1)
              /\ UNCHANGED << selected, out >>
  /\ UNCHANGED << script, env, DOCKER_BUILDER, DOCKER_CLOUD_ENDPOINT,
                  builders, bxStart, bxRuns, repo, notBuildx >>

\* docker buildx inspect ... | grep ... || true, the last log line, and the
\* end of the script
BX_Info ==
  /\ script = "buildx" /\ pc = "bx_info"
  /\ Do("docker buildx inspect")
  /\ Say("Buildx configuration completed")
  /\ Exit(0)
  /\ UNCHANGED << script, bx, repo, notBuildx >>

\* the script is started again in the same environment
BX_Again ==
  /\ script = "buildx" /\ pc = "done"
  /\ Len(bxRuns) + 1 < MaxBuildxRuns
  /\ bxRuns' = Append(bxRuns, [ exitCode |-> exitCode, ops |-> ops,
                                from |-> bxStart, builders |-> builders,
                                selected |-> selected ])
  /\ bxStart' = [ builders |-> builders, selected |-> selected ]
  /\ pc' = "bx_check"
  /\ exitCode' = NotExited
  /\ out' = << >>
  /\ ops' = << >>
  /\ UNCHANGED << script, env, DOCKER_BUILDER, DOCKER_CLOUD_ENDPOINT,
                  builders, selected, repo, notBuildx >>

\* builders that may exist before the first run, besides the default one
BuilderNames == { "cipher-builder", "mybuilder" }

InitBuildx ==
  /\ script = "buildx"
  /\ pc = "bx_check"
  /\ exitCode = NotExited
  /\ out = << >>
  /\ ops = << >>
  /\ RepoIdle
  /\ env \in [ DOCKER_BUILDER : { "", "mybuilder" },
               DOCKER_CLOUD_ENDPOINT : { "", "default", "cloud-endpoint" } ]
  /\ DOCKER_BUILDER = ""
  /\ DOCKER_CLOUD_ENDPOINT = ""
  /\ \E old \in SUBSET BuilderNames :
       builders = [ n \in { "default" } \cup old |->
                      IF n = "default" THEN "docker" ELSE "docker-container" ]
  /\ selected \in DOMAIN builders
  /\ bxStart = [ builders |-> builders, selected |-> selected ]
  /\ bxRuns = << >>
  /\ IdleButBuildx

NextBuildx == BX_Check \/ BX_Create \/ BX_Use \/ BX_Info \/ BX_Again

SpecBuildx == InitBuildx /\ [][NextBuildx]_vars

\* C26: a run of docker-buildx-use.sh that ends with status 0 leaves the
\* builder named by DOCKER_BUILDER existing and selected; a run adds a
\* builder only if that name did not exist when it started, and adds no
\* other, and does not call docker buildx create once the inspection found
\* the builder; a run that follows a successful one creates nothing and,
\* when it succeeds too, ends in the state the first one ended in.
C26_BuilderExistsSelectedCreatedOnce ==
  script = "buildx" =>
    /\ (pc = "done" /\ exitCode = 0) =>
         /\ DOCKER_BUILDER \in DOMAIN builders
         /\ selected = DOCKER_BUILDER
    /\ builders # bxStart.builders =>
         /\ DOCKER_BUILDER \notin DOMAIN bxStart.builders
         /\ DOMAIN builders = DOMAIN bxStart.builders \cup { DOCKER_BUILDER }
         /\ \A n \in DOMAIN bxStart.builders :
              builders[n] = bxStart.builders[n]
    /\ Printed("Builder already exists") => ~Ran("docker buildx create")
    /\ \A r \in 1..Len(bxRuns) :
         bxRuns[r].exitCode = 0 =>
           /\ builders = bxRuns[r].builders
           /\ (Ran("docker buildx create") /\ pc = "done") => exitCode = 1
           /\ (pc = "done" /\ exitCode = 0) => selected = bxRuns[r].selected

\* a first run created the cloud builder and selected it, and a second run
\* ended successfully without creating anything
C26_Witness ==
  /\ script = "buildx" /\ pc = "done" /\ exitCode = 0
  /\ Len(bxRuns) = 1
  /\ bxRuns[1].exitCode = 0
  /\ bxRuns[1].builders # bxRuns[1].from.builders
  /\ builders[DOCKER_BUILDER] = "cloud"
  /\ selected = DOCKER_BUILDER
  /\ ~Ran("docker buildx create")

====
